---- MODULE Spec2Model ----
(***************************************************************************)
(* Host side of the christmas ornament: the HTTP attribute handlers        *)
(* (attrs/mod.rs, attrs/uintqty.rs, attrs/scaledqty.rs) on top of the BLE   *)
(* peripheral, and the two long-running tasks of main.rs (the server and   *)
(* the disconnect handler).                                                 *)
(*                                                                         *)
(* Numbers.  A u64 is the sequence of its 8 bytes, least significant byte  *)
(* first, so that the 64 bit width is kept exactly (shifts drop bytes off   *)
(* either end as the machine does).  An f64 request value is kept as the    *)
(* exact quotient value / scale: a sign, a whole part (a u64) and a         *)
(* fraction frac / Sub.  Floating point rounding error is not modelled.     *)
(***************************************************************************)
EXTENDS Integers, Sequences, FiniteSets, TLC

VARIABLES
    catalog,    \* uuid16 of the characteristics of the discovered service
    dev,        \* the bytes the device holds for each threshold characteristic
    standing,   \* per threshold: the request value last written with success under
                \* the declared unit and not changed on the device since, or None
    mainPc,     \* main: "joining" in the join_next loop, "bailed" once it returned Err
    popped,     \* the task result join_next handed to main, or None
    serverPc,   \* the server task: "running", or how it ended
    supPc,      \* disconnect_handler: "sleeping", "polling", or how it ended
    polled,     \* what the last is_connected() returned (connect() saw "true")
    last,       \* the last request and its response
    failed,     \* some request so far met a BLE transport failure
    codec,      \* the codec on its own: input, encoded bytes, decoded value
    conn        \* ble::connect: where it is, what it saw and the steps it ran

vars == <<catalog, dev, standing, mainPc, popped, serverPc, supPc, polled, last, failed,
          codec, conn>>

(***************************************************************************)
(* Bounds of the model                                                     *)
(***************************************************************************)
\* the fraction of a request value is frac / Sub, frac in 0 .. Sub - 1
Sub == 2
\* longest byte sequence the device hands back in the codec harness
MaxDevLen == 8

\* widths a characteristic may have (const_assert!(length != 0), (length <= 8))
MinWidth == 1
MaxWidth == 8
\* bytes of a u64
U64Bytes == 8

\* byte values the inputs are built from
ByteSamples == {0, 1, 255}

Widths == MinWidth .. MaxWidth

(***************************************************************************)
(* Option<String>: None is the empty tuple, Some(s) the one-tuple <<s>>    *)
(***************************************************************************)
None == <<>>
Some(s) == <<s>>

(***************************************************************************)
(* u64 arithmetic on byte sequences (index 1 = least significant byte)     *)
(***************************************************************************)
Zero64 == [i \in 1 .. U64Bytes |-> 0]
Max64 == [i \in 1 .. U64Bytes |-> 255]

\* num & 0xff
LowByte(num) == num[1]

\* num >>= 8
Shr8(num) == [i \in 1 .. U64Bytes |-> IF i < U64Bytes THEN num[i + 1] ELSE 0]

\* num <<= 8  (the most significant byte falls off)
Shl8(num) == [i \in 1 .. U64Bytes |-> IF i = 1 THEN 0 ELSE num[i - 1]]

\* num |= byte, used right after a shift left, when the low byte of num is 0
OrByte(num, byte) == [num EXCEPT ![1] = byte]

\* num != 0
NonZero(num) == \E i \in 1 .. U64Bytes : num[i] # 0

\* bytes.iter().all(|b| *b == 0xff); true of the empty sequence
AllFF(bytes) == \A i \in 1 .. Len(bytes) : bytes[i] = 255

(***************************************************************************)
(* HTTP status codes                                                       *)
(***************************************************************************)
OK == 200
BAD_REQUEST == 400
NOT_FOUND == 404
INTERNAL_SERVER_ERROR == 500
SERVICE_UNAVAILABLE == 503

(***************************************************************************)
(* attrs/uintqty.rs                                                        *)
(***************************************************************************)
\* UIntQtyValue { value, unit }
UIntQtyValue(value, unit) == [value |-> value, unit |-> unit]

\* the conversion of get taking the first byte received as the least significant
Accumulate_little(num, bytes) ==
    [i \in 1 .. U64Bytes |-> IF i <= Len(bytes) THEN bytes[i] ELSE num[i]]

\* get: the loop "num <<= 8; num |= byte" over the bytes in the order received
RECURSIVE Accumulate(_, _)
Accumulate(num, bytes) ==
    IF bytes = <<>> THEN num
    ELSE Accumulate(OrByte(Shl8(num), Head(bytes)), Tail(bytes))

\* uintqty_get without its length check
uintqty_get_nolength(read, length, unit) ==
    IF ~read.ok THEN [status |-> read.status, cause |-> read.cause, payload |-> None]
    ELSE IF AllFF(read.bytes)
    THEN [status |-> SERVICE_UNAVAILABLE, cause |-> "Unavailable", payload |-> None]
    ELSE [status |-> OK, cause |-> "Ok",
          payload |-> Some(UIntQtyValue(Accumulate(Zero64, read.bytes), unit))]

\* get, after the characteristic was read: length check, sentinel check,
\* conversion.  `read` is the result of read_characteristic.
uintqty_get(read, length, unit) ==
    IF ~read.ok THEN [status |-> read.status, cause |-> read.cause, payload |-> None]
    ELSE IF Len(read.bytes) # length
    THEN [status |-> INTERNAL_SERVER_ERROR, cause |-> "LengthMismatch", payload |-> None]
    ELSE IF AllFF(read.bytes)
    THEN [status |-> SERVICE_UNAVAILABLE, cause |-> "Unavailable", payload |-> None]
    ELSE [status |-> OK, cause |-> "Ok",
          payload |-> Some(UIntQtyValue(Accumulate(Zero64, read.bytes), unit))]

\* post: the loop "bytes.push(num & 0xff); num >>= 8", `length` times;
\* the result is the bytes and what is left of num
RECURSIVE EmitBytes(_, _, _)
EmitBytes(bytes, num, n) ==
    IF n = 0 THEN [bytes |-> bytes, num |-> num]
    ELSE EmitBytes(Append(bytes, LowByte(num)), Shr8(num), n - 1)

\* uintqty_post with the sentinel check ahead of the overflow check
uintqty_post_swapped(request, length, unit) ==
    LET e == EmitBytes(<<>>, request.value, length) IN
    IF unit # request.unit
    THEN [status |-> BAD_REQUEST, cause |-> "UnitMismatch", bytes |-> <<>>]
    ELSE IF AllFF(e.bytes)
    THEN [status |-> BAD_REQUEST, cause |-> "InvalidValue", bytes |-> e.bytes]
    ELSE IF NonZero(e.num)
    THEN [status |-> BAD_REQUEST, cause |-> "ValueTooLarge", bytes |-> e.bytes]
    ELSE [status |-> OK, cause |-> "Ok", bytes |-> e.bytes]

\* uintqty_post without the sentinel check
uintqty_post_nosentinel(request, length, unit) ==
    LET e == EmitBytes(<<>>, request.value, length) IN
    IF unit # request.unit
    THEN [status |-> BAD_REQUEST, cause |-> "UnitMismatch", bytes |-> <<>>]
    ELSE IF NonZero(e.num)
    THEN [status |-> BAD_REQUEST, cause |-> "ValueTooLarge", bytes |-> e.bytes]
    ELSE [status |-> OK, cause |-> "Ok", bytes |-> e.bytes]

\* post, up to the call of write_characteristic: unit check, conversion,
\* overflow check, sentinel check.  cause "Ok" means the bytes go to the write.
uintqty_post(request, length, unit) ==
    LET e == EmitBytes(<<>>, request.value, length) IN
    IF unit # request.unit
    THEN [status |-> BAD_REQUEST, cause |-> "UnitMismatch", bytes |-> <<>>]
    ELSE IF NonZero(e.num)
    THEN [status |-> BAD_REQUEST, cause |-> "ValueTooLarge", bytes |-> e.bytes]
    ELSE IF AllFF(e.bytes)
    THEN [status |-> BAD_REQUEST, cause |-> "InvalidValue", bytes |-> e.bytes]
    ELSE [status |-> OK, cause |-> "Ok", bytes |-> e.bytes]

(***************************************************************************)
(* attrs/mod.rs: read_characteristic and write_characteristic              *)
(* `cat` is the set of uuid16 the service has a characteristic for, `io`   *)
(* the outcome of the BLE transfer.                                        *)
(***************************************************************************)
\* read_characteristic answering a failed BLE read with the status of the
\* lookup miss
read_characteristic_miss(cat, uuid16, io) ==
    IF uuid16 \notin cat
    THEN [ok |-> FALSE, status |-> NOT_FOUND, cause |-> "NotFound", bytes |-> <<>>]
    ELSE IF ~io.ok
    THEN [ok |-> FALSE, status |-> NOT_FOUND, cause |-> "TransportFailure", bytes |-> <<>>]
    ELSE [ok |-> TRUE, status |-> OK, cause |-> "Ok", bytes |-> io.bytes]

read_characteristic(cat, uuid16, io) ==
    IF uuid16 \notin cat
    THEN [ok |-> FALSE, status |-> NOT_FOUND, cause |-> "NotFound", bytes |-> <<>>]
    ELSE IF ~io.ok
    THEN [ok |-> FALSE, status |-> INTERNAL_SERVER_ERROR, cause |-> "TransportFailure",
          bytes |-> <<>>]
    ELSE [ok |-> TRUE, status |-> OK, cause |-> "Ok", bytes |-> io.bytes]

\* the status write_characteristic returns; handed |-> whether the bytes went
\* to ble::write_characteristic
write_characteristic(cat, uuid16, ioOk) ==
    IF uuid16 \notin cat
    THEN [status |-> NOT_FOUND, cause |-> "NotFound", handed |-> FALSE]
    ELSE IF ~ioOk
    THEN [status |-> INTERNAL_SERVER_ERROR, cause |-> "TransportFailure", handed |-> TRUE]
    ELSE [status |-> OK, cause |-> "Ok", handed |-> TRUE]

(***************************************************************************)
(* attrs/scaledqty.rs                                                      *)
(* A value of a ScaledQtyValue is held as the quotient value / scale:      *)
(* (-1)^neg * (whole + frac / Sub), whole a u64.                           *)
(***************************************************************************)
Quot(neg, whole, frac) == [neg |-> neg, whole |-> whole, frac |-> frac]

ScaledQtyValue(value, unit) == [value |-> value, unit |-> unit]

\* whole + 1, for whole < u64::MAX
Inc64(num) ==
    LET k == CHOOSE i \in 1 .. U64Bytes :
                 /\ num[i] # 255
                 /\ \A j \in 1 .. (i - 1) : num[j] = 255
    IN [i \in 1 .. U64Bytes |-> IF i < k THEN 0 ELSE IF i = k THEN num[i] + 1 ELSE num[i]]

\* (request.value / scale).round() as u64: round half away from zero, then the
\* saturating cast (below zero to 0, above u64::MAX to u64::MAX)
RoundAsU64(q) ==
    IF q.neg THEN Zero64
    ELSE IF 2 * q.frac < Sub THEN q.whole
    ELSE IF q.whole = Max64 THEN Max64
    ELSE Inc64(q.whole)

\* get: the unsigned get with the unit, then value as f64 * scale
scaledqty_get(read, length, unit) ==
    LET r == uintqty_get(read, length, Some(unit)) IN
    IF r.payload = None THEN r
    ELSE [r EXCEPT !.payload =
              Some(ScaledQtyValue(Quot(FALSE, r.payload[1].value, 0), unit))]

\* post: the request is rebuilt with the rounded value and the declared unit,
\* and goes through the unsigned post
scaledqty_post(request, length, unit) ==
    LET scaled == RoundAsU64(request.value)
        scaled_request == UIntQtyValue(scaled, Some(unit))
    IN uintqty_post(scaled_request, length, Some(unit))

(***************************************************************************)
(* The JSON body of a response: a number and a unit (a string or null).    *)
(* The number is held as a quotient, the unit as an Option.                *)
(***************************************************************************)
JsonUIntQty(p) == [value |-> Quot(FALSE, p.value, 0), unit |-> p.unit]

JsonScaledQty(p) == [value |-> p.value, unit |-> Some(p.unit)]

JsonBody(kind, payload) ==
    IF payload = None THEN None
    ELSE IF kind = "uint" THEN Some(JsonUIntQty(payload[1]))
    ELSE Some(JsonScaledQty(payload[1]))

(***************************************************************************)
(* attrs/mod.rs: the routes                                                *)
(***************************************************************************)
GetRoute(name, kind, uuid16, length, unit) ==
    [name |-> name, kind |-> kind, uuid16 |-> uuid16, length |-> length, unit |-> unit]

GetRoutes ==
    { GetRoute("get_heap", "uint", 2, 4, Some("bytes")),
      GetRoute("get_battery", "scaled", 3, 2, Some("volts")),
      GetRoute("get_light", "scaled", 4, 4, Some("lux")),
      GetRoute("get_accelerometer", "uint", 5, 3, None),
      GetRoute("get_light_threshold", "scaled", 6, 4, Some("lux")),
      GetRoute("get_accelerometer_threshold", "scaled", 7, 2, Some("g")),
      GetRoute("get_bootcount", "uint", 16, 1, None) }

PostRoutes ==
    { GetRoute("post_light_threshold", "scaled", 8, 4, Some("lux")),
      GetRoute("post_accelerometer_threshold", "scaled", 9, 2, Some("g")) }

\* uuid16 of every characteristic the routes use
Uuids == {r.uuid16 : r \in GetRoutes \cup PostRoutes}

(***************************************************************************)
(* The ornament.  The two thresholds are kept by the device; a sensor      *)
(* characteristic yields whatever the device measures when it is read.     *)
(***************************************************************************)
ThresholdUuids == {6, 7}

\* the readable characteristic of the attribute a write to uuid16 sets
ReadableOf(uuid16) == IF uuid16 = 8 THEN 6 ELSE 7

\* the device keeps the bytes written to a threshold as they came
DeviceStore(d, uuid16, bytes) == [d EXCEPT ![ReadableOf(uuid16)] = bytes]

Sentinel(length) == [i \in 1 .. length |-> 255]

\* byte sequences the device may hold for a characteristic of `length` bytes:
\* not yet set, a value, and a sequence one byte short
DevBytes(length) ==
    { Sentinel(length),
      [i \in 1 .. length |-> IF i = length THEN 1 ELSE 0],
      [i \in 1 .. (length - 1) |-> 255] }

WidthOf(uuid16) == (CHOOSE r \in GetRoutes : r.uuid16 = uuid16).length

(***************************************************************************)
(* Inputs of the requests                                                  *)
(***************************************************************************)
\* the u64 with the given low bytes
U64(low) == [i \in 1 .. U64Bytes |-> IF i <= Len(low) THEN low[i] ELSE 0]

ReqWholes == { U64(<<123>>), U64(<<255, 255>>) }

ReqValues ==
    {Quot(FALSE, w, f) : w \in ReqWholes, f \in 0 .. (Sub - 1)}
        \cup {Quot(TRUE, U64(<<50>>), 0)}

\* the bodies of the POST requests to a route: every value under the declared
\* unit, and 12.3 (123 units of the scale) under another unit
ReqBodies(route) ==
    {ScaledQtyValue(v, route.unit[1]) : v \in ReqValues}
        \cup {ScaledQtyValue(Quot(FALSE, U64(<<123>>), 0), "LUX")}

Catalogs == {Uuids, Uuids \ {2, 8}}

NoRequest ==
    [kind |-> "none", route |-> "", unit |-> "", value |-> None, status |-> 0,
     cause |-> "", payload |-> None, handed |-> FALSE, bytes |-> <<>>]

(***************************************************************************)
(* The program: requests served by the server task                         *)
(***************************************************************************)
Serving == mainPc = "joining" /\ serverPc = "running"

\* GET of a route: read_characteristic, then uintqty::get or scaledqty::get
Get(route, io) ==
    /\ Serving
    /\ LET read == read_characteristic(catalog, route.uuid16, io)
           resp == IF route.kind = "uint"
                   THEN uintqty_get(read, route.length, route.unit)
                   ELSE scaledqty_get(read, route.length, route.unit[1])
       IN /\ last' = [kind |-> "GET", route |-> route.name, unit |-> "", value |-> None,
                      status |-> resp.status, cause |-> resp.cause,
                      payload |-> JsonBody(route.kind, resp.payload),
                      handed |-> FALSE, bytes |-> <<>>]
          /\ failed' = (failed \/ resp.cause = "TransportFailure")
    /\ UNCHANGED <<catalog, dev, standing, mainPc, popped, serverPc, supPc, polled, codec, conn>>

GetAny ==
    \E route \in GetRoutes :
        \E io \in {[ok |-> FALSE, bytes |-> <<>>]}
                    \cup {[ok |-> TRUE, bytes |-> b] :
                            b \in IF route.uuid16 \in ThresholdUuids
                                  THEN {dev[route.uuid16]}
                                  ELSE DevBytes(route.length)} :
            Get(route, io)

\* POST of a route: scaledqty::post, then write_characteristic
Post(route, request, ioOk) ==
    /\ Serving
    /\ LET enc == scaledqty_post(request, route.length, route.unit[1])
           wr == IF enc.cause = "Ok"
                 THEN write_characteristic(catalog, route.uuid16, ioOk)
                 ELSE [status |-> enc.status, cause |-> enc.cause, handed |-> FALSE]
       IN /\ last' = [kind |-> "POST", route |-> route.name, unit |-> request.unit,
                      value |-> Some(request.value), status |-> wr.status,
                      cause |-> wr.cause, payload |-> None, handed |-> wr.handed,
                      bytes |-> IF wr.handed THEN enc.bytes ELSE <<>>]
          /\ failed' = (failed \/ wr.cause = "TransportFailure")
          /\ IF wr.cause = "Ok"
             THEN /\ dev' = DeviceStore(dev, route.uuid16, enc.bytes)
                  /\ standing' = [standing EXCEPT ![ReadableOf(route.uuid16)] =
                                      IF Some(request.unit) = route.unit
                                      THEN Some(request.value) ELSE None]
             ELSE UNCHANGED <<dev, standing>>
    /\ UNCHANGED <<catalog, mainPc, popped, serverPc, supPc, polled, codec, conn>>

PostAny ==
    \E route \in PostRoutes, ioOk \in BOOLEAN :
        \E request \in ReqBodies(route) : Post(route, request, ioOk)

\* the device restarts and a threshold is back to "not yet set"
DeviceUpdate ==
    /\ mainPc = "joining"
    /\ \E c \in ThresholdUuids :
          /\ dev[c] # Sentinel(WidthOf(c))
          /\ dev' = [dev EXCEPT ![c] = Sentinel(WidthOf(c))]
          /\ standing' = [standing EXCEPT ![c] = None]
    /\ UNCHANGED <<catalog, mainPc, popped, serverPc, supPc, polled, last, failed, codec, conn>>

(***************************************************************************)
(* main.rs: the disconnect handler, the server task and main's join loop   *)
(***************************************************************************)
\* disconnect_handler: tokio::time::sleep(poll_interval) is over
SupSleep ==
    /\ mainPc = "joining"
    /\ supPc = "sleeping"
    /\ supPc' = "polling"
    /\ UNCHANGED <<catalog, dev, standing, mainPc, popped, serverPc, polled, last, failed,
                   codec, conn>>

\* disconnect_handler: where the loop goes on the result of is_connected(),
\* which is the peripheral's to decide at each poll: Err(_) leaves through `?`,
\* Ok(true) continues, Ok(false) bails
\* disconnect_handler going on with the loop when the peripheral is gone
disconnect_handler_lenient(res) ==
    IF res = "Err" THEN "Error"
    ELSE "sleeping"

disconnect_handler(res) ==
    IF res = "Err" THEN "Error"
    ELSE IF res = "true" THEN "sleeping"
    ELSE "Disconnected"

SupPoll ==
    /\ mainPc = "joining"
    /\ supPc = "polling"
    /\ \E res \in {"true", "false", "Err"} :
          /\ polled' = res
          /\ supPc' = disconnect_handler(res)
    /\ UNCHANGED <<catalog, dev, standing, mainPc, popped, serverPc, last, failed, codec, conn>>

\* the server task ends: axum::serve returned Ok or Err, or the task panicked
ServerEnd ==
    /\ mainPc = "joining"
    /\ serverPc = "running"
    /\ serverPc' \in {"Ok", "Err", "Panicked"}
    /\ UNCHANGED <<catalog, dev, standing, mainPc, popped, supPc, polled, last, failed,
                   codec, conn>>

Ended(pc) == pc \notin {"running", "sleeping", "polling"}

\* what join_next yields for a task that ended
TaskResult(pc) ==
    IF pc = "Panicked" THEN "JoinError"
    ELSE IF pc = "Ok" THEN "Ok"
    ELSE "Err"

\* main taking the next result when a task returned Ok
main_join_lenient(r) ==
    IF r = "JoinError" THEN "bailed"
    ELSE IF r = "Ok" THEN "joining"
    ELSE "bailed"

\* main: the body of the while-let on one popped result; every arm bails
main_join(r) ==
    IF r = "JoinError" THEN "bailed"
    ELSE IF r = "Ok" THEN "bailed"
    ELSE "bailed"

MainJoin ==
    /\ mainPc = "joining"
    /\ popped = None
    /\ \E t \in {"server", "supervisor"} :
          LET pc == IF t = "server" THEN serverPc ELSE supPc IN
          /\ Ended(pc)
          /\ popped' = Some([task |-> t, result |-> TaskResult(pc)])
          /\ mainPc' = main_join(TaskResult(pc))
    /\ UNCHANGED <<catalog, dev, standing, serverPc, supPc, polled, last, failed, codec, conn>>

(***************************************************************************)
(* The program after main spawned the two tasks                            *)
(***************************************************************************)
CodecIdle == [phase |-> "idle"]

\* ble::connect returned the ornament, found connected and with its services
\* discovered, before main spawned the tasks
ConnReturned ==
    [pc |-> "returned", result |-> "Ok", adapters |-> 1, visible |-> <<>>,
     ornament |-> None, linked |-> TRUE, discovered |-> TRUE, trace |-> <<>>]

Init ==
    /\ catalog \in Catalogs
    /\ dev = [c \in ThresholdUuids |-> Sentinel(WidthOf(c))]
    /\ standing = [c \in ThresholdUuids |-> None]
    /\ mainPc = "joining"
    /\ popped = None
    /\ serverPc = "running"
    /\ supPc = "sleeping"
    /\ polled = "true"
    /\ last = NoRequest
    /\ failed = FALSE
    /\ codec = CodecIdle
    /\ conn = ConnReturned

Next ==
    \/ GetAny
    \/ PostAny
    \/ DeviceUpdate
    \/ SupSleep
    \/ SupPoll
    \/ ServerEnd
    \/ MainJoin

Spec == Init /\ [][Next]_vars

\* join_next wakes main once a task of the join set has ended; the sleep and
\* the BLE calls of the tasks are given no such guarantee
FairSpec == Spec /\ WF_vars(MainJoin)

(***************************************************************************)
(* The unsigned codec on its own: uintqty::post on any u64 and width, the   *)
(* bytes it hands over read back through uintqty::get, and uintqty::get on  *)
(* any byte sequence of the device.                                        *)
(***************************************************************************)
RECURSIVE SeqsUpTo(_, _)
SeqsUpTo(S, n) ==
    IF n = 0 THEN {<<>>}
    ELSE LET shorter == SeqsUpTo(S, n - 1)
         IN shorter \cup {Append(q, x) : q \in {r \in shorter : Len(r) = n - 1}, x \in S}

U64Samples == [1 .. U64Bytes -> ByteSamples]

CodecUnits == {None, Some("lux")}

CodecInit ==
    /\ catalog = Uuids
    /\ dev = [c \in ThresholdUuids |-> Sentinel(WidthOf(c))]
    /\ standing = [c \in ThresholdUuids |-> None]
    /\ mainPc = "joining"
    /\ popped = None
    /\ serverPc = "running"
    /\ supPc = "sleeping"
    /\ polled = "true"
    /\ last = NoRequest
    /\ failed = FALSE
    /\ conn = ConnReturned
    /\ \/ \E v \in U64Samples, w \in Widths, u \in CodecUnits, ru \in CodecUnits :
            codec = [phase |-> "posting", value |-> v, length |-> w, unit |-> u,
                     reqUnit |-> ru, bytes |-> <<>>, enc |-> None, dec |-> None]
       \/ \E b \in SeqsUpTo(ByteSamples, MaxDevLen), w \in Widths, u \in CodecUnits :
            codec = [phase |-> "getting", value |-> Zero64, length |-> w, unit |-> u,
                     reqUnit |-> u, bytes |-> b, enc |-> None, dec |-> None]

\* uintqty::post on the request {value, reqUnit}
CodecPost ==
    /\ codec.phase = "posting"
    /\ codec' = [codec EXCEPT
                    !.phase = "posted",
                    !.enc = Some(uintqty_post(UIntQtyValue(codec.value, codec.reqUnit),
                                              codec.length, codec.unit))]
    /\ UNCHANGED <<catalog, dev, standing, mainPc, popped, serverPc, supPc, polled, last,
                   failed, conn>>

\* the bytes post handed over come back from the device as they were written
CodecReadBack ==
    /\ codec.phase = "posted"
    /\ codec.enc[1].cause = "Ok"
    /\ codec' = [codec EXCEPT
                    !.phase = "readback",
                    !.bytes = codec.enc[1].bytes,
                    !.dec = Some(uintqty_get([ok |-> TRUE, bytes |-> codec.enc[1].bytes],
                                             codec.length, codec.unit))]
    /\ UNCHANGED <<catalog, dev, standing, mainPc, popped, serverPc, supPc, polled, last,
                   failed, conn>>

\* uintqty::get on bytes the device returned
CodecGet ==
    /\ codec.phase = "getting"
    /\ codec' = [codec EXCEPT
                    !.phase = "got",
                    !.dec = Some(uintqty_get([ok |-> TRUE, bytes |-> codec.bytes],
                                             codec.length, codec.unit))]
    /\ UNCHANGED <<catalog, dev, standing, mainPc, popped, serverPc, supPc, polled, last,
                   failed, conn>>

CodecNext == CodecPost \/ CodecReadBack \/ CodecGet

CodecSpec == CodecInit /\ [][CodecNext]_vars

(***************************************************************************)
(* ble.rs: connect and try_find                                            *)
(* A peripheral the adapter lists is what properties() yields for it:      *)
(* props "Err" (the call failed), "None" (no properties) or "Some", and    *)
(* then its local_name.  conn.visible is the adapter's list, in its order.  *)
(***************************************************************************)
\* most peripherals the adapter lists
MaxPeriph == 2
\* most adapters the manager hands back
MaxAdapters == 2

\* the display name main passes to connect
OrnamentName == "Christmas Ornament"

Peripheral(props, local_name) == [props |-> props, local_name |-> local_name]

PeriphKinds ==
    { Peripheral("Err", None), Peripheral("None", None), Peripheral("Some", None),
      Peripheral("Some", Some("Other")), Peripheral("Some", Some(OrnamentName)) }

\* try_find: the loop over the peripherals from the i-th on
RECURSIVE try_find_from(_, _, _)
try_find_from(name, peripherals, i) ==
    IF i > Len(peripherals) THEN [outcome |-> "absent", periph |-> None]
    ELSE IF peripherals[i].props # "Some" THEN [outcome |-> "fail", periph |-> None]
    ELSE IF peripherals[i].local_name = Some(name)
    THEN [outcome |-> "found", periph |-> Some(i)]
    ELSE try_find_from(name, peripherals, i + 1)

\* try_find; `listed` is the result of adapter.peripherals()
try_find(name, listed) ==
    IF ~listed.ok THEN [outcome |-> "fail", periph |-> None]
    ELSE try_find_from(name, listed.peripherals, 1)

\* connect calling ornament.connect() whatever is_connected() said
connect_eager(pc, outcome) ==
    IF outcome \in {"fail", "none"} THEN "Err"
    ELSE IF pc = "manager" THEN "adapters"
    ELSE IF pc = "adapters" THEN "find1"
    ELSE IF pc = "find1" THEN (IF outcome = "found" THEN "is_connected" ELSE "start_scan")
    ELSE IF pc = "start_scan" THEN "stop_scan"
    ELSE IF pc = "stop_scan" THEN "find2"
    ELSE IF pc = "find2" THEN (IF outcome = "found" THEN "is_connected" ELSE "Err")
    ELSE IF pc = "is_connected" THEN "connect"
    ELSE IF pc = "connect" THEN "discover"
    ELSE "Ok"

\* connect: where it goes after the step at pc ended with outcome; "Err" and
\* "Ok" are its two returns.  Every `?` and every context(..)? on a failure or
\* on None returns the error.
connect(pc, outcome) ==
    IF outcome \in {"fail", "none"} THEN "Err"
    ELSE IF pc = "manager" THEN "adapters"
    ELSE IF pc = "adapters" THEN "find1"
    ELSE IF pc = "find1" THEN (IF outcome = "found" THEN "is_connected" ELSE "start_scan")
    ELSE IF pc = "start_scan" THEN "stop_scan"
    ELSE IF pc = "stop_scan" THEN "find2"
    ELSE IF pc = "find2" THEN (IF outcome = "found" THEN "is_connected" ELSE "Err")
    ELSE IF pc = "is_connected" THEN (IF outcome = "true" THEN "discover" ELSE "connect")
    ELSE IF pc = "connect" THEN "discover"
    ELSE "Ok"

\* the name a step at pc goes by in the trace
StepName(pc) ==
    IF pc \in {"find1", "find2"} THEN "search" ELSE pc

\* conn after the step at conn.pc ended with outcome
Stepped(c, outcome) ==
    LET to == connect(c.pc, outcome) IN
    [c EXCEPT !.pc = IF to \in {"Err", "Ok"} THEN "returned" ELSE to,
              !.result = IF to \in {"Err", "Ok"} THEN to ELSE "none",
              !.trace = Append(c.trace, [step |-> StepName(c.pc), outcome |-> outcome])]

Others == <<catalog, dev, standing, mainPc, popped, serverPc, supPc, polled, last, failed,
            codec>>

\* Manager::new()
ConnManager ==
    /\ conn.pc = "manager"
    /\ \E outcome \in {"ok", "fail"} : conn' = Stepped(conn, outcome)
    /\ UNCHANGED Others

\* manager.adapters() and adapters.get(0)
ConnAdapters ==
    /\ conn.pc = "adapters"
    /\ \E ok \in BOOLEAN :
          conn' = Stepped(conn, IF ~ok THEN "fail"
                                ELSE IF conn.adapters = 0 THEN "none" ELSE "ok")
    /\ UNCHANGED Others

\* try_find, before the scan or after it
ConnFind ==
    /\ conn.pc \in {"find1", "find2"}
    /\ \E ok \in BOOLEAN :
          LET r == try_find(OrnamentName, [ok |-> ok, peripherals |-> conn.visible])
          IN conn' = [Stepped(conn, r.outcome) EXCEPT !.ornament = r.periph]
    /\ UNCHANGED Others

\* adapter.start_scan(..)
ConnStartScan ==
    /\ conn.pc = "start_scan"
    /\ \E outcome \in {"ok", "fail"} : conn' = Stepped(conn, outcome)
    /\ UNCHANGED Others

\* the sleep of scan_duration, in which the adapter may list more
\* peripherals, and adapter.stop_scan()
ConnStopScan ==
    /\ conn.pc = "stop_scan"
    /\ \E outcome \in {"ok", "fail"} :
       \E more \in SeqsUpTo(PeriphKinds, MaxPeriph - Len(conn.visible)) :
          conn' = [Stepped(conn, outcome) EXCEPT !.visible = conn.visible \o more]
    /\ UNCHANGED Others

\* ornament.is_connected()
ConnIsConnected ==
    /\ conn.pc = "is_connected"
    /\ \E outcome \in {"fail", IF conn.linked THEN "true" ELSE "false"} :
          conn' = Stepped(conn, outcome)
    /\ UNCHANGED Others

\* ornament.connect()
ConnConnect ==
    /\ conn.pc = "connect"
    /\ \E outcome \in {"ok", "fail"} :
          conn' = [Stepped(conn, outcome) EXCEPT
                      !.linked = IF outcome = "ok" THEN TRUE ELSE conn.linked]
    /\ UNCHANGED Others

\* ornament.discover_services()
ConnDiscover ==
    /\ conn.pc = "discover"
    /\ \E outcome \in {"ok", "fail"} :
          conn' = [Stepped(conn, outcome) EXCEPT !.discovered = (outcome = "ok")]
    /\ UNCHANGED Others

\* main calls ble::connect
ConnInit ==
    /\ catalog = Uuids
    /\ dev = [c \in ThresholdUuids |-> Sentinel(WidthOf(c))]
    /\ standing = [c \in ThresholdUuids |-> None]
    /\ mainPc = "connecting"
    /\ popped = None
    /\ serverPc = "unspawned"
    /\ supPc = "unspawned"
    /\ polled = "none"
    /\ last = NoRequest
    /\ failed = FALSE
    /\ codec = CodecIdle
    /\ \E n \in 0 .. MaxAdapters, listed \in SeqsUpTo(PeriphKinds, MaxPeriph),
          linked \in BOOLEAN :
          conn = [pc |-> "manager", result |-> "none", adapters |-> n,
                  visible |-> listed, ornament |-> None, linked |-> linked,
                  discovered |-> FALSE, trace |-> <<>>]

ConnNext ==
    \/ ConnManager
    \/ ConnAdapters
    \/ ConnFind
    \/ ConnStartScan
    \/ ConnStopScan
    \/ ConnIsConnected
    \/ ConnConnect
    \/ ConnDiscover

ConnectSpec == ConnInit /\ [][ConnNext]_vars

(***************************************************************************)
(* Properties of the unsigned codec (checked under CodecSpec)              *)
(***************************************************************************)
\* v < 2^(8w): no byte of v above the w low ones is set
Fits(v, w) == \A i \in (w + 1) .. U64Bytes : v[i] = 0

\* the w low bytes of v, lowest first
Low(v, w) == [i \in 1 .. w |-> v[i]]

\* every byte of b is 0xFF
EveryByteFF(b) == \A i \in DOMAIN b : b[i] = 255

\* the request of the harness carries the declared unit
UnitAgrees == codec.reqUnit = codec.unit

\* C1: for every width w and every v with 0 <= v < 2^(8w) - 1, encoding v at
\* width w succeeds and decoding the bytes it produced yields v again, with
\* the unit of the request.
C1_RoundTrip ==
    LET inRange == /\ Fits(codec.value, codec.length)
                   /\ ~EveryByteFF(Low(codec.value, codec.length))
    IN /\ (codec.phase = "posted" /\ UnitAgrees /\ inRange)
              => codec.enc[1].cause = "Ok"
       /\ (codec.phase = "readback" /\ inRange)
              => /\ codec.dec[1].status = OK
                 /\ codec.dec[1].payload =
                        Some([value |-> codec.value, unit |-> codec.reqUnit])

\* C4 as stated: encode(v, w) fails InvalidValue exactly when the w bytes it
\* produced (the w low bytes of v) are all 0xFF.
C4_InvalidValueIffAllFF ==
    (codec.phase = "posted" /\ UnitAgrees)
        => ((codec.enc[1].cause = "InvalidValue")
                <=> EveryByteFF(Low(codec.value, codec.length)))

\* C4, amended: encode(v, w) fails InvalidValue exactly when the w bytes it
\* produced are all 0xFF and no bit of v is left above them (v = 2^(8w) - 1);
\* with bits left it fails ValueTooLarge, whatever the bytes.
C4_InvalidValueIffSentinel ==
    (codec.phase = "posted" /\ UnitAgrees)
        => /\ (codec.enc[1].cause = "InvalidValue")
                  <=> (/\ EveryByteFF(Low(codec.value, codec.length))
                       /\ Fits(codec.value, codec.length))
           /\ codec.enc[1].cause = "InvalidValue" => codec.enc[1].status = BAD_REQUEST

C4_Witness ==
    /\ codec.phase = "posted"
    /\ codec.enc[1].cause = "InvalidValue"
    /\ codec.length = 3

\* C5: encode(v, w) fails ValueTooLarge exactly when v >= 2^(8w); at w = 8
\* no value is too large.
C5_TooLargeIff ==
    (codec.phase = "posted" /\ UnitAgrees)
        => /\ (codec.enc[1].cause = "ValueTooLarge")
                  <=> ~Fits(codec.value, codec.length)
           /\ codec.length = MaxWidth => codec.enc[1].cause # "ValueTooLarge"

C5_Witness ==
    /\ codec.phase = "posted"
    /\ codec.enc[1].cause = "ValueTooLarge"
    /\ EveryByteFF(Low(codec.value, codec.length))

\* C6 as stated: for every byte sequence of the device and every width,
\* decode fails Unavailable exactly when every byte is 0xFF.
C6_UnavailableIffAllFF ==
    codec.phase = "got"
        => ((codec.dec[1].cause = "Unavailable") <=> EveryByteFF(codec.bytes))

\* C6, amended: decode fails Unavailable (service unavailable, no payload)
\* exactly when the sequence has the declared width and every byte is 0xFF; a
\* sequence of another length fails LengthMismatch, all 0xFF or not.
C6_UnavailableIffSentinel ==
    codec.phase = "got"
        => /\ (codec.dec[1].cause = "Unavailable")
                  <=> (Len(codec.bytes) = codec.length /\ EveryByteFF(codec.bytes))
           /\ codec.dec[1].cause = "Unavailable"
                  => (codec.dec[1].status = SERVICE_UNAVAILABLE
                        /\ codec.dec[1].payload = None)
           /\ Len(codec.bytes) # codec.length => codec.dec[1].cause = "LengthMismatch"

C6_Witness ==
    /\ codec.phase = "got"
    /\ codec.dec[1].cause = "Unavailable"
    /\ codec.length = 4

(***************************************************************************)
(* Properties of the requests (checked under Spec)                         *)
(***************************************************************************)
PostRouteOf(name) == CHOOSE r \in PostRoutes : r.name = name

GetRouteOf(name) == CHOOSE r \in GetRoutes : r.name = name

\* C2: a POST whose unit differs from the unit the route declares is answered
\* bad-request and nothing is handed to the device.
C2_UnitMismatchRejected ==
    (last.kind = "POST" /\ Some(last.unit) # PostRouteOf(last.route).unit)
        => (last.status = BAD_REQUEST /\ ~last.handed)

\* the raw integer a request value scales to
RawOf(q) == RoundAsU64(q)

\* every payload handed to a characteristic write has the declared width, is
\* not the sentinel, and is the whole of a raw value that fits the width
HandedPayloadsWellFormed ==
    (last.kind = "POST" /\ last.handed)
        => LET r == PostRouteOf(last.route) IN
           /\ Len(last.bytes) = r.length
           /\ ~EveryByteFF(last.bytes)
           /\ Fits(RawOf(last.value[1]), r.length)
           /\ last.bytes = Low(RawOf(last.value[1]), r.length)

\* C3: every payload handed to a characteristic write has the declared width,
\* is not the sentinel, and comes from a request that passed the unit, the
\* overflow and the sentinel check; a request failing one of them hands nothing
\* to the device.
C3_HandedPayloads ==
    last.kind = "POST"
        => LET r == PostRouteOf(last.route)
               raw == RawOf(last.value[1])
               unitOk == Some(last.unit) = r.unit
               fits == Fits(raw, r.length)
               sentinel == EveryByteFF(Low(raw, r.length))
           IN /\ last.handed => /\ Len(last.bytes) = r.length
                                /\ ~EveryByteFF(last.bytes)
                                /\ unitOk /\ fits /\ ~sentinel
              /\ (~unitOk \/ ~fits \/ sentinel) => ~last.handed

\* |R - (+/-)(whole + frac / Sub)| <= 1, for a u64 R
WithinOne(R, q) ==
    IF q.neg
    THEN \/ ~NonZero(R) /\ ~NonZero(q.whole)
         \/ ~NonZero(R) /\ q.whole = U64(<<1>>) /\ q.frac = 0
         \/ R = U64(<<1>>) /\ ~NonZero(q.whole) /\ q.frac = 0
    ELSE \/ R = q.whole
         \/ R = Inc64(q.whole)
         \/ q.frac = 0 /\ Inc64(R) = q.whole

\* C7: after a successful write of v under the declared unit the raw integer
\* on the device is round(v / s), and a read of the attribute with no change
\* on the device in between returns a value within one unit of s of v, with
\* the declared unit.
C7_ScaledRoundTrip ==
    /\ (last.kind = "POST" /\ last.status = OK
            /\ Some(last.unit) = PostRouteOf(last.route).unit)
          => LET q == last.value[1]
                 magnitude == IF 2 * q.frac < Sub THEN q.whole ELSE Inc64(q.whole)
             IN /\ q.neg => ~NonZero(magnitude)
                /\ U64(dev[ReadableOf(PostRouteOf(last.route).uuid16)]) = magnitude
    /\ (/\ last.kind = "GET"
        /\ last.cause \notin {"TransportFailure", "NotFound"}
        /\ GetRouteOf(last.route).uuid16 \in ThresholdUuids
        /\ standing[GetRouteOf(last.route).uuid16] # None)
          => /\ last.status = OK
             /\ last.payload # None
             /\ last.payload[1].unit = GetRouteOf(last.route).unit
             /\ WithinOne(last.payload[1].value.whole,
                          standing[GetRouteOf(last.route).uuid16][1])

\* C10: a request that meets a BLE transport failure is answered internal
\* failure with no payload, and the step leaves main and both tasks as they
\* were, still serving.
C10_TransportFailure ==
    /\ [](last.cause = "TransportFailure"
            => (last.status = INTERNAL_SERVER_ERROR /\ last.payload = None))
    /\ [][(last' # last /\ last'.cause = "TransportFailure")
            => (UNCHANGED <<mainPc, popped, serverPc, supPc, polled>> /\ Serving')]_vars

C10_Witness ==
    /\ failed
    /\ Serving
    /\ last.status = OK
    /\ last.kind = "POST"

(***************************************************************************)
(* Properties of the tasks (checked under FairSpec)                        *)
(***************************************************************************)
\* C8: a poll that finds the peripheral connected sends the handler back to
\* sleep, the handler ends only at a poll that did not; the poll that finds it
\* not connected ends the handler with Disconnected, for good and without
\* another poll; main then returns, and once it has no request is served.
C8_Supervisor ==
    /\ [][(supPc = "polling" /\ supPc' # "polling")
            => /\ polled' = "true" <=> supPc' = "sleeping"
               /\ polled' = "false" <=> supPc' = "Disconnected"]_vars
    /\ [][(supPc = "Disconnected")
            => (supPc' = "Disconnected" /\ polled' = polled)]_vars
    /\ (supPc = "Disconnected") ~> (mainPc = "bailed")
    /\ [][(mainPc = "bailed") => UNCHANGED <<last, dev, mainPc>>]_vars

C8_Witness ==
    /\ supPc = "Disconnected"
    /\ polled = "false"
    /\ mainPc = "bailed"
    /\ popped = Some([task |-> "supervisor", result |-> "Err"])
    /\ last.kind # "none"

\* C9: whichever task result main pops (an error, a join error, a normal
\* return), main returns an error; once a task has ended main does return, and
\* after that nothing runs.
C9_FailFast ==
    /\ [](popped # None => mainPc = "bailed")
    /\ (Ended(serverPc) \/ Ended(supPc)) ~> (mainPc = "bailed")
    /\ [][(mainPc = "bailed") => UNCHANGED vars]_vars

C9_Witness ==
    /\ popped = Some([task |-> "server", result |-> "Ok"])
    /\ mainPc = "bailed"
    /\ ~Ended(supPc)

(***************************************************************************)
(* The value of the unsigned decode (checked under CodecSpec)              *)
(***************************************************************************)
\* sum of b[i] * 256^(w - i), i = 1 .. w, for w = Len(b) <= 8: the byte of
\* weight 256^(j - 1) is b[w + 1 - j]
FirstByteMostSignificant(b) ==
    [j \in 1 .. U64Bytes |-> IF j <= Len(b) THEN b[Len(b) + 1 - j] ELSE 0]

Entry(step, outcome) == [step |-> step, outcome |-> outcome]

StepsOf(trace) == [i \in 1 .. Len(trace) |-> trace[i].step]

IsPrefix(a, b) == Len(a) <= Len(b) /\ a = SubSeq(b, 1, Len(a))

\* the orders in which connect may run its steps to the end
StepOrders ==
    { <<"manager", "adapters", "search">> \o scan \o link \o <<"discover">> :
        scan \in {<<>>, <<"start_scan", "stop_scan", "search">>},
        link \in {<<"is_connected">>, <<"is_connected", "connect">>} }

Has(trace, entry) == \E i \in 1 .. Len(trace) : trace[i] = entry

\* the outcomes on which a step fails connect: a failed call, no adapter, or a
\* second search that found nothing
Failure(trace, i) ==
    \/ trace[i].outcome \in {"fail", "none"}
    \/ /\ trace[i] = Entry("search", "absent")
       /\ Has(SubSeq(trace, 1, i - 1), Entry("search", "absent"))

\* C11: connect returns the peripheral only when the peripheral of the given
\* name was found, it is connected (it already was, or a connect issued only
\* after is_connected said no succeeded) and service discovery then succeeded;
\* the steps run in the order adapters, search, (scan and search again, only
\* after a first search that found nothing, at most once), connect, discover;
\* and a failing step returns the error with no step after it.
C11_ConnectPath ==
    LET trace == conn.trace IN
    /\ conn.result = "Ok" =>
          /\ Has(trace, Entry("search", "found"))
          /\ conn.ornament # None
          /\ conn.visible[conn.ornament[1]] = Peripheral("Some", Some(OrnamentName))
          /\ conn.linked
          /\ Has(trace, Entry("is_connected", "true")) \/ Has(trace, Entry("connect", "ok"))
          /\ trace[Len(trace)] = Entry("discover", "ok")
          /\ conn.discovered
    /\ \A i \in 1 .. Len(trace) :
          /\ trace[i].step = "connect" => i > 1 /\ trace[i - 1] = Entry("is_connected", "false")
          /\ trace[i].step = "start_scan" => i > 1 /\ trace[i - 1] = Entry("search", "absent")
          /\ Failure(trace, i) => i = Len(trace) /\ conn.result = "Err"
    /\ \E order \in StepOrders : IsPrefix(StepsOf(trace), order)
    /\ conn.result = "Err" => trace # <<>> /\ Failure(trace, Len(trace))
    /\ conn.result = "none" <=> conn.pc # "returned"

\* connect returned the ornament after a scan found it and a connect linked it
C11_Witness ==
    /\ conn.result = "Ok"
    /\ StepsOf(conn.trace) = <<"manager", "adapters", "search", "start_scan", "stop_scan",
                               "search", "is_connected", "connect", "discover">>
    /\ conn.ornament = Some(2)
====
